---- MODULE Spec2Model ----
(***************************************************************************)
(* Model of src/streamlit.py: the SlideshowGenerator class (transition     *)
(* scheduling in create_seamless_sequence, generate_video, cleanup) and    *)
(* the "Generate Sequence" handler of main().                              *)
(*                                                                         *)
(* Time is counted in ticks of 1/8 second.  Every duration the program     *)
(* handles here is a multiple of 0.125 s (image durations step by 0.5 s,   *)
(* transition durations by 0.25 s, and the code halves the transition      *)
(* duration once), so the float arithmetic of the source is exact and is   *)
(* reproduced by integer arithmetic on ticks.  Transition durations are    *)
(* always an even number of ticks, so transition_duration/2 is exact.      *)
(***************************************************************************)
EXTENDS Integers, Sequences, FiniteSets, TLC

\* ------------------------------------------------------------------------
\* Bounds of the model
\* ------------------------------------------------------------------------
MaxClips == 3        \* longest clip list handed to create_seamless_sequence
MaxDuration == 4     \* longest clip duration (ticks) in direct calls
MaxHalf == 3         \* direct calls: transition_duration <= 2*MaxHalf ticks
MaxNegHalf == 2      \* direct calls: transition_duration >= -2*MaxNegHalf
MaxUploads == 3      \* most files uploaded with one form
MaxRequests == 2     \* generation requests followed in one session
MaxImageSteps == 1   \* image_duration slider: steps above its minimum
MaxTransitionSteps == 5  \* transition_duration slider: steps above its minimum

\* ------------------------------------------------------------------------
\* The sliders of the form (lines 219-226 and 266-273), in ticks
\* ------------------------------------------------------------------------
ImageDurationMin == 8          \* min_value=1.0
ImageDurationMax == 240        \* max_value=30.0
ImageDurationStep == 4         \* step=0.5
TransitionDurationMin == 0     \* min_value=0.0
TransitionDurationMax == 80    \* max_value=10.0
TransitionDurationStep == 2    \* step=0.25

\* ------------------------------------------------------------------------
\* moviepy clips, as far as the scheduling code reads and writes them
\* ------------------------------------------------------------------------

\* ImageClip(img_path) followed by set_duration(image_duration):
\* a clip that starts at 0 and carries no fade.
ImageClip(img, dur) ==
    [image |-> img, duration |-> dur, start |-> 0, fadeIn |-> 0, fadeOut |-> 0]

set_start(clip, t) == [clip EXCEPT !.start = t]

crossfadein(clip, d) == [clip EXCEPT !.fadeIn = d]

fadein(clip, d) == [clip EXCEPT !.fadeIn = d]

fadeout(clip, d) == [clip EXCEPT !.fadeOut = d]

ClipEnd(clip) == clip.start + clip.duration

\* transition_duration/2 (exact: transition durations are even tick counts)
Half(d) == d \div 2

RECURSIVE SumDurations(_, _)
SumDurations(clips, k) ==
    IF k = 0 THEN 0 ELSE SumDurations(clips, k - 1) + clips[k].duration

RECURSIVE MaxEnd(_, _)
MaxEnd(clips, k) ==
    IF k = 1 THEN ClipEnd(clips[1])
    ELSE LET m == MaxEnd(clips, k - 1)
         IN  IF ClipEnd(clips[k]) > m THEN ClipEnd(clips[k]) ELSE m

\* concatenate_videoclips(clips, method="compose"): every clip is restarted
\* at the sum of the durations of the clips before it, whatever start it
\* carried; the result lasts the sum of all durations.
concatenate_videoclips(clips) ==
    [status   |-> "ok",
     clips    |-> [i \in 1..Len(clips) |->
                      set_start(clips[i], SumDurations(clips, i - 1))],
     duration |-> SumDurations(clips, Len(clips))]

\* CompositeVideoClip(clips): the clips keep their starts; the result lasts
\* until the latest end.
CompositeVideoClip(clips) ==
    [status   |-> "ok",
     clips    |-> clips,
     duration |-> MaxEnd(clips, Len(clips))]

ValueError(msg) ==
    [status |-> "error", error |-> msg, clips |-> << >>, duration |-> 0]

\* ------------------------------------------------------------------------
\* SlideshowGenerator.create_seamless_sequence
\* ------------------------------------------------------------------------

NoTransitionOnlyNegative(transition_duration) == transition_duration < 0

NoTransitionOnlyZero(transition_duration) == transition_duration = 0

\* line 60: the guard of the no-transition branch
NoTransition(transition_duration) == transition_duration <= 0

WorkingClipsRepeatsLast(clips) == Append(clips, clips[Len(clips)])

\* line 63: working_clips = clips + [clips[0]]
WorkingClips(clips) == Append(clips, clips[1])

CrossfadeClipUnparenthesised(working_clips, i, transition_duration) ==
    LET current_clip == working_clips[i + 1]
        start_time   == i * current_clip.duration - transition_duration
        faded        == IF i > 0
                        THEN crossfadein(current_clip, transition_duration)
                        ELSE current_clip
    IN  set_start(faded, start_time)

\* lines 66-73, one iteration of the crossfade loop (i is the 0-based index)
CrossfadeClip(working_clips, i, transition_duration) ==
    LET current_clip == working_clips[i + 1]
        start_time   == i * (current_clip.duration - transition_duration)
        faded        == IF i > 0
                        THEN crossfadein(current_clip, transition_duration)
                        ELSE current_clip
    IN  set_start(faded, start_time)

\* lines 79-85, the clip appended at iteration i of the fade_black loop
FadeBlackClip(working_clips, i, transition_duration) ==
    LET clip == fadeout(working_clips[i + 1], Half(transition_duration))
    IN  IF i > 0 THEN set_start(clip, i * clip.duration) ELSE clip

\* lines 81, 85, the next_clip of iteration i of the fade_black loop
FadeBlackNextClip(working_clips, i, transition_duration) ==
    LET clip      == fadeout(working_clips[i + 1], Half(transition_duration))
        next_clip == fadein(working_clips[i + 2], Half(transition_duration))
    IN  set_start(next_clip,
                  (i * clip.duration) + clip.duration - Half(transition_duration))

\* lines 76-89: final_clips of the fade_black branch; next_clip is appended
\* only in the last iteration that has a successor (i = len - 2)
FadeBlackFinalClips(working_clips, transition_duration) ==
    LET m == Len(working_clips)
    IN  [k \in 1..m |->
            IF k < m
            THEN FadeBlackClip(working_clips, k - 1, transition_duration)
            ELSE FadeBlackNextClip(working_clips, m - 2, transition_duration)]

create_seamless_sequence(clips, transition_duration, transition_type) ==
    IF clips = << >> THEN ValueError("No clips provided")
    ELSE IF NoTransition(transition_duration)
    THEN concatenate_videoclips(clips)
    ELSE LET working_clips == WorkingClips(clips)
         IN  IF transition_type = "crossfade"
             THEN CompositeVideoClip(
                      [k \in 1..Len(working_clips) |->
                          CrossfadeClip(working_clips, k - 1, transition_duration)])
             ELSE concatenate_videoclips(
                      FadeBlackFinalClips(working_clips, transition_duration))

\* line 229: the options of the transition selectbox
TransitionTypes == {"crossfade", "fade_black"}

\* ------------------------------------------------------------------------
\* State
\* ------------------------------------------------------------------------
VARIABLES
    phase,           \* direct call of create_seamless_sequence: "off", "args", "returned"
    args,            \* its arguments
    ret,             \* what it returned or raised
    pc,              \* position of main()'s script: "off", "idle", or a step of the handler
    generator,       \* temp_dir of st.session_state.generator
    dirs,            \* temporary directories that exist on disk
    nextDir,         \* the directory the next tempfile.mkdtemp() creates
    uploaded_files,  \* the uploads of the submitted form (the kind of each file)
    randomize,       \* the "Randomize Images" checkbox
    image_files,     \* saved files, named by the position of their upload
    settings,        \* the settings dictionary of lines 294-301
    clips,           \* the clips generate_video has created
    final_video,     \* what create_seamless_sequence returned to generate_video
    output,          \* TRUE once write_videofile has written the output file
    error,           \* message of the exception the handler is unwinding with
    used,            \* history: the temp_dir each started request worked in
    failed           \* history: directories whose shutil.rmtree raised

callVars == <<phase, args, ret>>
sessionVars == <<pc, generator, dirs, nextDir, uploaded_files, randomize,
                 image_files, settings, clips, final_video, output, error,
                 used, failed>>
vars == <<phase, args, ret, pc, generator, dirs, nextDir, uploaded_files,
          randomize, image_files, settings, clips, final_video, output,
          error, used, failed>>

NoVideo == [status |-> "none", clips |-> << >>, duration |-> 0]
NoSettings ==
    [image_duration |-> 0, transition_duration |-> 0, transition_type |-> "none"]
NoArgs == [clips |-> << >>, transition_duration |-> 0, transition_type |-> "none"]

\* ------------------------------------------------------------------------
\* Direct calls of create_seamless_sequence
\* ------------------------------------------------------------------------
Images == 1..MaxClips

ImageLists == UNION {[1..n -> Images] : n \in 0..MaxClips}

CallDurations == 1..MaxDuration

CallTransitionDurations == {2 * h : h \in (0 - MaxNegHalf)..MaxHalf}

CallArgs ==
    {[clips |-> [i \in 1..Len(imgs) |-> ImageClip(imgs[i], dur)],
      transition_duration |-> d,
      transition_type |-> t] :
        imgs \in ImageLists, dur \in CallDurations,
        d \in CallTransitionDurations, t \in TransitionTypes}

SessionOff ==
    /\ pc = "off"
    /\ generator = 0
    /\ dirs = {}
    /\ nextDir = 1
    /\ uploaded_files = << >>
    /\ randomize = FALSE
    /\ image_files = << >>
    /\ settings = NoSettings
    /\ clips = << >>
    /\ final_video = NoVideo
    /\ output = FALSE
    /\ error = ""
    /\ used = << >>
    /\ failed = {}

InitCall ==
    /\ phase = "args"
    /\ args \in CallArgs
    /\ ret = NoVideo
    /\ SessionOff

Call ==
    /\ phase = "args"
    /\ ret' = create_seamless_sequence(args.clips, args.transition_duration,
                                        args.transition_type)
    /\ phase' = "returned"
    /\ UNCHANGED <<args, pc, generator, dirs, nextDir, uploaded_files, randomize,
                   image_files, settings, clips, final_video, output, error,
                   used, failed>>

NextCall == Call

SchedSpec == InitCall /\ [][NextCall]_vars

\* ------------------------------------------------------------------------
\* The session: main() and its "Generate Sequence" handler
\* ------------------------------------------------------------------------

\* What an uploaded file can be to process_uploaded_files: an image it saves,
\* a file whose extension it skips (line 29), a file PIL fails on (line 51).
FileKinds == {"image", "other_extension", "unreadable"}

UploadLists == UNION {[1..n -> FileKinds] : n \in 1..MaxUploads}

ImageDurations ==
    {v \in {ImageDurationMin + k * ImageDurationStep : k \in 0..MaxImageSteps} :
        v <= ImageDurationMax}

TransitionDurations ==
    {v \in {TransitionDurationMin + k * TransitionDurationStep :
                k \in 0..MaxTransitionSteps} :
        v <= TransitionDurationMax}

\* lines 294-301, the fields the scheduling reads
SettingsOfForm ==
    [image_duration : ImageDurations,
     transition_duration : TransitionDurations,
     transition_type : TransitionTypes]

\* lines 22-53: the saved files, in upload order; a skipped or failing file
\* is left out and the loop goes on
RECURSIVE process_uploaded_files(_, _)
process_uploaded_files(files, k) ==
    IF k = 0 THEN << >>
    ELSE LET before == process_uploaded_files(files, k - 1)
         IN  IF files[k] = "image" THEN Append(before, k) ELSE before

\* random.shuffle(image_files): any order of the same files
Shuffles(files) ==
    {p \in [1..Len(files) -> {files[i] : i \in 1..Len(files)}] :
        \A i, j \in 1..Len(files) : i # j => p[i] # p[j]}

NoImagesNeverTrue(files) == FALSE

\* line 103: if not image_files
NoImages(files) == files = << >>

\* lines 94-99: shutil.rmtree(self.temp_dir); an exception of rmtree is
\* reported and swallowed, and the directory stays
cleanup(existing, temp_dir, removed) ==
    IF removed THEN existing \ {temp_dir} ELSE existing

\* lines 191-192 of the first script run: the session has its generator
InitSession ==
    /\ phase = "off"
    /\ args = NoArgs
    /\ ret = NoVideo
    /\ pc = "idle"
    /\ generator = 1
    /\ dirs = {1}
    /\ nextDir = 2
    /\ uploaded_files = << >>
    /\ randomize = FALSE
    /\ image_files = << >>
    /\ settings = NoSettings
    /\ clips = << >>
    /\ final_video = NoVideo
    /\ output = FALSE
    /\ error = ""
    /\ used = << >>
    /\ failed = {}

\* lines 201, 275-286: the form is submitted with some uploads
Submit ==
    /\ pc = "idle"
    /\ Len(used) < MaxRequests
    /\ \E files \in UploadLists, r \in BOOLEAN :
          /\ uploaded_files' = files
          /\ randomize' = r
    /\ used' = Append(used, generator)
    /\ pc' = "process"
    /\ UNCHANGED <<generator, dirs, nextDir, image_files, settings, clips,
                   final_video, output, error, failed>>
    /\ UNCHANGED callVars

\* line 289
ProcessUploadedFiles ==
    /\ pc = "process"
    /\ image_files' = process_uploaded_files(uploaded_files, Len(uploaded_files))
    /\ pc' = "settings"
    /\ UNCHANGED <<generator, dirs, nextDir, uploaded_files, randomize, settings,
                   clips, final_video, output, error, used, failed>>
    /\ UNCHANGED callVars

\* lines 291-301
ShuffleAndSettings ==
    /\ pc = "settings"
    /\ image_files' \in (IF randomize THEN Shuffles(image_files) ELSE {image_files})
    /\ settings' \in SettingsOfForm
    /\ pc' = "generate"
    /\ UNCHANGED <<generator, dirs, nextDir, uploaded_files, randomize, clips,
                   final_video, output, error, used, failed>>
    /\ UNCHANGED callVars

\* lines 103-104
GenerateVideoNoImages ==
    /\ pc = "generate"
    /\ NoImages(image_files)
    /\ error' = "No images provided"
    /\ pc' = "except"
    /\ UNCHANGED <<generator, dirs, nextDir, uploaded_files, randomize,
                   image_files, settings, clips, final_video, output, used, failed>>
    /\ UNCHANGED callVars

\* lines 111-125, every ImageClip built
MakeClips ==
    /\ pc = "generate"
    /\ ~NoImages(image_files)
    /\ clips' = [i \in 1..Len(image_files) |->
                    ImageClip(image_files[i], settings.image_duration)]
    /\ pc' = "sequence"
    /\ UNCHANGED <<generator, dirs, nextDir, uploaded_files, randomize,
                   image_files, settings, final_video, output, error, used, failed>>
    /\ UNCHANGED callVars

\* lines 111-125 and 163-171, ImageClip or resize raising on the k-th file
MakeClipsFails ==
    /\ pc = "generate"
    /\ ~NoImages(image_files)
    /\ \E k \in 1..Len(image_files) :
          clips' = [i \in 1..(k - 1) |->
                       ImageClip(image_files[i], settings.image_duration)]
    /\ error' = "ImageClip"
    /\ pc' = "except"
    /\ UNCHANGED <<generator, dirs, nextDir, uploaded_files, randomize,
                   image_files, settings, final_video, output, used, failed>>
    /\ UNCHANGED callVars

\* lines 127-136
CreateSequence ==
    /\ pc = "sequence"
    /\ LET made == IF clips = << >>
                    THEN ValueError("No clips were created")
                    ELSE create_seamless_sequence(clips,
                                                  settings.transition_duration,
                                                  settings.transition_type)
       IN  IF made.status = "error"
           THEN /\ error' = made.error
                /\ pc' = "except"
                /\ UNCHANGED final_video
           ELSE /\ final_video' = made
                /\ pc' = "write"
                /\ UNCHANGED error
    /\ UNCHANGED <<generator, dirs, nextDir, uploaded_files, randomize,
                   image_files, settings, clips, output, used, failed>>
    /\ UNCHANGED callVars

\* lines 138-161
WriteVideofile ==
    /\ pc = "write"
    /\ output' = TRUE
    /\ pc' = "download"
    /\ UNCHANGED <<generator, dirs, nextDir, uploaded_files, randomize,
                   image_files, settings, clips, final_video, error, used, failed>>
    /\ UNCHANGED callVars

\* lines 141-159 raising (no write access, or the encoder failing)
WriteVideofileFails ==
    /\ pc = "write"
    /\ error' = "write_videofile"
    /\ pc' = "except"
    /\ UNCHANGED <<generator, dirs, nextDir, uploaded_files, randomize,
                   image_files, settings, clips, final_video, output, used, failed>>
    /\ UNCHANGED callVars

\* lines 305-311
OpenOutput ==
    /\ pc = "download"
    /\ pc' = "success"
    /\ UNCHANGED <<generator, dirs, nextDir, uploaded_files, randomize,
                   image_files, settings, clips, final_video, output, error,
                   used, failed>>
    /\ UNCHANGED callVars

\* line 305 raising
OpenOutputFails ==
    /\ pc = "download"
    /\ error' = "open"
    /\ pc' = "except"
    /\ UNCHANGED <<generator, dirs, nextDir, uploaded_files, randomize,
                   image_files, settings, clips, final_video, output, used, failed>>
    /\ UNCHANGED callVars

\* cleanup() followed by SlideshowGenerator(): the directory of the old
\* generator is removed unless rmtree raises; mkdtemp creates a new one
ReplaceGenerator(removed) ==
    /\ dirs' = cleanup(dirs, generator, removed) \cup {nextDir}
    /\ failed' = IF removed THEN failed ELSE failed \cup {generator}
    /\ generator' = nextDir
    /\ nextDir' = nextDir + 1

\* the handler returns: its locals are gone
HandlerReturns ==
    /\ pc' = "idle"
    /\ uploaded_files' = << >>
    /\ randomize' = FALSE
    /\ image_files' = << >>
    /\ settings' = NoSettings
    /\ clips' = << >>
    /\ final_video' = NoVideo
    /\ output' = FALSE
    /\ error' = ""
    /\ UNCHANGED used
    /\ UNCHANGED callVars

\* lines 313-315
CleanupAfterSuccess ==
    /\ pc = "success"
    /\ \E removed \in BOOLEAN : ReplaceGenerator(removed)
    /\ HandlerReturns

HandleExceptionKeepsGenerator ==
    /\ pc = "except"
    /\ \E removed \in BOOLEAN :
          /\ dirs' = cleanup(dirs, generator, removed)
          /\ failed' = IF removed THEN failed ELSE failed \cup {generator}
    /\ UNCHANGED <<generator, nextDir>>
    /\ HandlerReturns

\* lines 317-320
HandleException ==
    /\ pc = "except"
    /\ \E removed \in BOOLEAN : ReplaceGenerator(removed)
    /\ HandlerReturns

\* the steps of the handler once the form is submitted
HandlerStep ==
    \/ ProcessUploadedFiles
    \/ ShuffleAndSettings
    \/ GenerateVideoNoImages
    \/ MakeClips
    \/ MakeClipsFails
    \/ CreateSequence
    \/ WriteVideofile
    \/ WriteVideofileFails
    \/ OpenOutput
    \/ OpenOutputFails
    \/ CleanupAfterSuccess
    \/ HandleException

NextSession == Submit \/ HandlerStep

\* The handler is ordinary sequential code: once submitted it runs on.
SessionSpec == InitSession /\ [][NextSession]_vars /\ WF_vars(HandlerStep)

\* Either the function is called directly, or a session runs.
Init == InitCall \/ InitSession

Next == NextCall \/ NextSession

Spec == Init /\ [][Next]_vars /\ WF_vars(HandlerStep)

\* ------------------------------------------------------------------------
\* Properties of create_seamless_sequence (checked under SchedSpec)
\* ------------------------------------------------------------------------
Returned == phase = "returned" /\ args.clips # << >>

ArgN == Len(args.clips)
ArgD == args.clips[1].duration
ArgT == args.transition_duration
Segs == ret.clips

Crossfaded == Returned /\ ArgT > 0 /\ args.transition_type = "crossfade"
FadedBlack == Returned /\ ArgT > 0 /\ args.transition_type = "fade_black"

CrossfadeSegmentsAsStated ==
    /\ ret.status = "ok"
    /\ Len(Segs) = ArgN + 1
    /\ \A k \in 1..Len(Segs) :
          /\ Segs[k].start = (k - 1) * (ArgD - ArgT)
          /\ Segs[k].duration = ArgD
          /\ ClipEnd(Segs[k]) = Segs[k].start + ArgD
          /\ k > 1 => Segs[k].fadeIn = ArgT
    /\ ArgT < ArgD =>
          \A k \in 2..Len(Segs) :
              /\ Segs[k].start < ClipEnd(Segs[k - 1])
              /\ ClipEnd(Segs[k - 1]) - Segs[k].start = ArgT
    /\ ArgT < ArgD =>
          Cardinality({k \in 2..Len(Segs) :
                          ClipEnd(Segs[k - 1]) - Segs[k].start = ArgT}) = ArgN

C2_ZeroTransitionBackToBack ==
    (Returned /\ ArgT = 0) =>
        /\ ret.status = "ok"
        /\ Len(Segs) = ArgN
        /\ \A k \in 1..Len(Segs) :
              /\ Segs[k].start = (k - 1) * ArgD
              /\ ClipEnd(Segs[k]) = k * ArgD
              /\ Segs[k].fadeIn = 0
              /\ Segs[k].fadeOut = 0
              /\ Segs[k].image = args.clips[k].image
        /\ \A j, k \in 1..Len(Segs) :
              j < k => ClipEnd(Segs[j]) <= Segs[k].start
        /\ ret.duration = ArgN * ArgD

C2_Witness ==
    /\ Returned
    /\ ArgT = 0
    /\ ArgN = 3
    /\ args.transition_type = "crossfade"
    /\ ret.duration = 3 * ArgD
    /\ Segs[3].start = 2 * ArgD

\* C3: loop closure. For both transition kinds with d > 0, the timeline has
\* n+1 segments, the first n carry the input images in input order and the
\* last carries the image of segment 0.
C3_LoopClosure ==
    (Crossfaded \/ FadedBlack) =>
        /\ ret.status = "ok"
        /\ Len(Segs) = ArgN + 1
        /\ \A k \in 1..ArgN : Segs[k].image = args.clips[k].image
        /\ Segs[ArgN + 1].image = Segs[1].image

C3_Witness ==
    /\ FadedBlack
    /\ ArgN = 3
    /\ Len(Segs) = 4
    /\ Segs[4].image = Segs[1].image
    /\ Segs[3].image # Segs[1].image

\* C4: in fade-to-black mode with d > 0, on every boundary between segments
\* i and i+1 (0 <= i < n) the segment placed at position i has fadeOut = d/2
\* and the segment placed at position i+1 has fadeIn = d/2.
C4_FadeBlackBoundaries ==
    FadedBlack =>
        /\ Len(Segs) = ArgN + 1
        /\ \A k \in 1..ArgN :
              /\ Segs[k].fadeOut = Half(ArgT)
              /\ Segs[k + 1].fadeIn = Half(ArgT)

\* C5: in fade-to-black mode with d > 0, segment 0 starts at 0, segment i
\* (1 <= i <= n) starts at i*(D - d/2), and totalDuration =
\* (n+1)*D - n*(d/2).
C5_FadeBlackStarts ==
    FadedBlack =>
        /\ Len(Segs) = ArgN + 1
        /\ \A k \in 1..Len(Segs) :
              Segs[k].start = (k - 1) * (ArgD - Half(ArgT))
        /\ ret.duration = (ArgN + 1) * ArgD - ArgN * Half(ArgT)

InHandler == pc \notin {"off", "idle"}

UsedDirs == {used[k] : k \in 1..Len(used)}

C7_Safety ==
    /\ \A j, k \in 1..Len(used) : j # k => used[j] # used[k]
    /\ InHandler => (used[Len(used)] = generator /\ generator \in dirs)
    /\ pc = "idle" =>
          /\ \A k \in 1..Len(used) : used[k] \in dirs => used[k] \in failed
          /\ generator \in dirs
          /\ generator \notin UsedDirs
          /\ generator \notin failed

C8_EmptyInputFails ==
    /\ (phase = "returned" /\ args.clips = << >>) =>
          /\ ret.status = "error"
          /\ ret.error = "No clips provided"
          /\ ret.clips = << >>
    /\ (pc \in {"sequence", "write", "download", "success", "except"}
            /\ image_files = << >>) =>
          /\ pc = "except"
          /\ error = "No images provided"
          /\ clips = << >>
          /\ final_video = NoVideo
          /\ output = FALSE

C8_Witness ==
    /\ pc = "except"
    /\ image_files = << >>
    /\ Len(uploaded_files) = 2
    /\ uploaded_files[1] = "other_extension"
    /\ uploaded_files[2] = "unreadable"
    /\ settings.transition_duration > 0
    /\ error = "No images provided"

Scheduled == final_video.status = "ok"

\* C9: every segment of a timeline produced from settings the form can
\* supply has 0 <= fadeIn, 0 <= fadeOut, fadeIn + fadeOut <= end - start
\* and start < end.
C9_SegmentInvariant ==
    Scheduled =>
        \A k \in 1..Len(final_video.clips) :
            LET seg == final_video.clips[k]
            IN  /\ 0 <= seg.fadeIn
                /\ 0 <= seg.fadeOut
                /\ seg.fadeIn + seg.fadeOut <= ClipEnd(seg) - seg.start
                /\ seg.start < ClipEnd(seg)

\* C10: in every timeline produced from settings the form can supply the
\* segments appear in non-decreasing start order and totalDuration is the
\* maximum end over the segments.
C10_TimelineInvariant ==
    Scheduled =>
        LET segs == final_video.clips
        IN  /\ \A k \in 1..(Len(segs) - 1) : segs[k].start <= segs[k + 1].start
            /\ \A k \in 1..Len(segs) : ClipEnd(segs[k]) <= final_video.duration
            /\ \E k \in 1..Len(segs) : ClipEnd(segs[k]) = final_video.duration

====
